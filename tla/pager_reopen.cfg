\* A file opened any number of times by tables with a two-page cache.
SPECIFICATION Spec
CONSTANTS
  FILE_PAGES_NUM = 4
  max_pages = 2
  Data = {zero, d1}
  Zero = zero
INVARIANTS TypeOK IndexesAgree HoldsMostRecent
PROPERTIES ImplementsPageStore NewPagesAreUnused FirstFlushIsDurable
