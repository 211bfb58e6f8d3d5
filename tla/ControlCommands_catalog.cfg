SPECIFICATION Spec
CONSTANTS
  Clients = {c1, c2}
  Main = main
  None = None
  Layouts = {"builtin", "zero"}
  BuiltinLayout = "builtin"
  ZeroLayout = "zero"
  Curves = {"flat"}
  DefaultCurve = "flat"
  Bundled <- OneBundled
  UserFiles = {1, 2, 3}
  FirstFiles = {2, 3}
  MaxCatalogEntries = 3
  MaxCommands = 2
  MaxKills = 0
  MaxChanges = 2
SYMMETRY ClientSymmetry
INVARIANTS IndexNamesLoaded CatalogCurrent
