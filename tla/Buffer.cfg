SPECIFICATION Spec
CONSTANTS
  Byte = {0, 1}
  Zero = 0
  kCheapPrepend = 2
  kInitialSize = 2
  ExtraSize = 2
  MaxAppend = 3
  MaxReadable = 4
INVARIANTS IndicesOrdered CapacityBounded
PROPERTIES BytesInOrder
