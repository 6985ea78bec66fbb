\* Rows in any order: what a scan returns (violated).
SPECIFICATION UniqueSpec
CONSTANTS
  FILE_PAGES_NUM = 12
  cache_size = 12
  LEAF_NODE_MAX_CELLS = 1
  Keys = {0, 1, 2, 3}
  Texts = {"short"}
  Ones = {{}}
  UINT32_MAX = 99
  MaxRows = 4
INVARIANTS ScanSorted
CHECK_DEADLOCK FALSE
