SPECIFICATION Spec
CONSTANTS
  Size = 4
  Value = {a, b}
  None = None
INVARIANTS TypeOK NoOverwrite
PROPERTY FifoSpec
