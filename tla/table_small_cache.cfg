\* Rows in ascending order through the three-page cache of the tests (violated).
SPECIFICATION AscendingSpec
CONSTANTS
  FILE_PAGES_NUM = 12
  cache_size = 3
  LEAF_NODE_MAX_CELLS = 3
  Keys = {0, 1, 2, 3, 4, 5, 6, 7, 8, 9, 10, 11}
  Texts = {"short"}
  Ones = {{}}
  UINT32_MAX = 99
  MaxRows = 12
INVARIANTS NoStalePointer
CHECK_DEADLOCK FALSE
