\* A page stored in again after a flush (violated).
SPECIFICATION Spec
CONSTANTS
  FILE_PAGES_NUM = 4
  max_pages = 2
  Data = {zero, d1}
  Zero = zero
PROPERTIES FlushIsDurable
