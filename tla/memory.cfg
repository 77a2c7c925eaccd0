CONSTANTS
  t1 = t1
  t2 = t2
  a1 = a1
  a2 = a2
  None = None
  Threads = {t1, t2}
  Pages = {1, 2, 3}
  Base <- MCBase
  Alignment = 2
  DefaultSize = 6
  Sizes = {1, 4}
  Aligns = {1, 4}
  CallBound = 4
  ResetBound = 1
SYMMETRY Symmetry
SPECIFICATION MCSpec
INVARIANTS TypesOK PagesOnce OneUser LayoutExact ContentsKept LookupsExact
PROPERTIES Implements LocalImplements
CHECK_DEADLOCK FALSE
