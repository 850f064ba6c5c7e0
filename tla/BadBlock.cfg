SPECIFICATION Spec
CONSTANTS
  a = a
  b = b
  one = one
  two = two
  x = x
  y = y
  NoName = NoName
  None = None
  Empty = Empty
  Names <- MCNames
  Values <- MCValues
  Lines <- MCLines
  MaxLines = 5
INVARIANT FirstBlockIsOwn
CHECK_DEADLOCK FALSE
