CONSTANTS
  Block = {b1, b2, b3}
  Value = {v0, v1}
  Zero = v0
  NoBlock = NoBlock
  SLOTS = 2
  Outcome = {"ok"}
SPECIFICATION Spec
INVARIANTS NoDuplicate CleanOnDisk
PROPERTIES ImplementsStore
