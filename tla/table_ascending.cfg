\* Rows in ascending order, any of them left out, to three levels of internal nodes,
\* where the last insertion throws: the file is full.
SPECIFICATION AscendingSpec
CONSTANTS
  FILE_PAGES_NUM = 19
  cache_size = 30
  LEAF_NODE_MAX_CELLS = 1
  Keys = {0, 1, 2, 3, 4, 5, 6, 7, 8, 9, 10, 11}
  Texts = {"short"}
  Ones = {{}}
  UINT32_MAX = 99
  MaxRows = 12
INVARIANTS FindsRowsWhileShallow
PROPERTIES ImplementsSortedRows
CHECK_DEADLOCK FALSE
