\* A file of seven pages fills up half-way through the split of an internal root;
\* the greatest of three keys is the one that is all ones.
SPECIFICATION Spec
CONSTANTS
  FILE_PAGES_NUM = 7
  cache_size = 7
  LEAF_NODE_MAX_CELLS = 3
  Keys = {0, 1, 2}
  Texts = {"long"}
  Ones = {{}}
  UINT32_MAX = 2
  MaxRows = 13
INVARIANTS LeavesSorted LeavesChained RowsKept
CHECK_DEADLOCK FALSE
