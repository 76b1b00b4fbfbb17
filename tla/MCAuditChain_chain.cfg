CONSTANTS
  Writer = {w1, w2}
  Event = {a, b}
  Unhashable = Unhashable
  MaxSteps = 6
SYMMETRY Symmetry
SPECIFICATION Spec
INVARIANTS TypeOK TamperNamed CommittedIsGenuine
PROPERTY AppendKeepsBreak
CHECK_DEADLOCK FALSE
