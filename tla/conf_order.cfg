\* Nine configurations in a directory, and one more is saved.
SPECIFICATION Spec
CONSTANTS
  Clients = {c1}
  Old = old
  Before = 9
  MaxNum = 10
  MaxRows = 1
  Kinds = {"file"}
INVARIANT
  NumericOrder
