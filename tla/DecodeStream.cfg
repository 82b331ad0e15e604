SPECIFICATION StreamSpec
CONSTANTS
  SiteIds = {1, 2}
  MaxLength = 4
INVARIANTS
  DecodesExactly
  NothingSilent
