\* Three lines: a setting, a line that overrides it, and one that ends the reading.
SPECIFICATION Spec
CONSTANTS
  ConfLines <- SomeConfLines
  ResolvLines <- SomeResolvLines
  Garbage = Garbage
  MaxLines = 3
INVARIANTS
  TypeOK
  LastLineDecides
  ServersInOrder
  SuccessMeansUsable
\* Loading ends.
CHECK_DEADLOCK FALSE
