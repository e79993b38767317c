SPECIFICATION Spec
CONSTANTS
  Ids = {s1, s2}
  Pages = 7
  PageWords = 2
  WordBytes = 8
  Usize = 128
  MaxSize = 80
  Foot = 1
  Sizes = {0, 1, 3, 4, 6, 9, 17, 20}
INVARIANTS MappedIsOwned EnoughRoom UsedSize
CHECK_DEADLOCK FALSE
