\* Eight rows in every order; one row to a leaf, so that internal nodes
\* split.  The old bytes of the root's cell 2 may read as no page.
SPECIFICATION UniqueSpec
CONSTANTS
  FILE_PAGES_NUM = 20
  cache_size = 8
  LEAF_NODE_MAX_CELLS = 1
  Keys = {0, 1, 2, 3, 4, 5, 6, 7}
  Texts = {"long"}
  Ones = {{}, {2}}
  UINT32_MAX = 99
  MaxRows = 8
INVARIANTS TypeOK TreeIsBalanced LeafParentsAgree LeavesChained RowsKept DescentsEnd ExitsOnOldBytesOnly
PROPERTIES EightPagesSuffice
CHECK_DEADLOCK FALSE
