CONSTANTS
  Data = {0, 1}
  Zero = 0
  Count = 3
SPECIFICATION Spec
INVARIANT TypeOK
INVARIANT PositionsAgree
PROPERTY ImplementsQueue
