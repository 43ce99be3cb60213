SPECIFICATION Spec
CONSTANTS
  None = None
  Torn = Torn
  Process = {p1, p2}
  Build = {b1, b2}
  MaxCommands = 5
  MaxKills = 2
  MaxErrors = 2
  MaxEdits = 2
  MaxChanges = 2
SYMMETRY Alike
INVARIANTS OnlyBuiltIsUsed PublishedIsUsable
PROPERTIES LeftoversNeverBlock
CHECK_DEADLOCK FALSE
