CONSTANTS
  Names = {a, b}
  None = None
  Word = 2
  DMAP_SIZE = 6
  IMAP_SIZE = 3
  BMAP_SIZE = 1
  DIR_INCLUDE_NUM = 4
  D_ADDR_NUM = 2
  Mixed = FALSE
  Depth = 2
SYMMETRY Symmetry
SPECIFICATION Spec
INVARIANTS TypeOK EntriesAgree OneName BlocksOwned PathIsHere
PROPERTY CommandsKept
