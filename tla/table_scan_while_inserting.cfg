\* A scan among insertions of seven rows in every order, three to a leaf, so
\* that leaves split under the cursor and leave it past their last cell.
SPECIFICATION ScanSpec
CONSTANTS
  FILE_PAGES_NUM = 8
  cache_size = 8
  LEAF_NODE_MAX_CELLS = 3
  Keys = {0, 1, 2, 3, 4, 5, 6}
  Texts = {"short"}
  Ones = {{}}
  UINT32_MAX = 99
  MaxRows = 7
INVARIANTS ScanTypeOK NothingMissed RowsPassed
PROPERTIES ScanEnds
CHECK_DEADLOCK FALSE
