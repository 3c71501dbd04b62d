SPECIFICATION Spec
CONSTANTS
  Nodes = {n1, n2, n3}
  Items = {x, y}
  HeadNode = HeadNode
  TailNode = TailNode
  NilNode = NilNode
  MaxFree = 3
  Texts <- MCTexts
  SizeInc = 2
  MaxLength = 5
  MaxPath = 6
INVARIANTS StructuresSound 
PROPERTIES ImplementsList
CHECK_DEADLOCK FALSE
