SPECIFICATION Spec
CONSTANTS
  a = a
  b = b
  c = c
  part = part
  name = name
  Songs = {a, b}
  Copies = {c, part}
  Part = part
  Names = {name}
  NameOf <- MCNameOf
  Asks <- MCAsks
  Jobs = {1, 2}
  Slots = 2
  MaxEvents = 2
INVARIANT NoOrphans
INVARIANT PlaysItsSong
PROPERTY RequestsSpec
PROPERTY EveryJobEnds
CHECK_DEADLOCK FALSE
