\* to_list(max_items=0) of a collection with a row in it.
SPECIFICATION Spec
CONSTANTS
  MaxPages = 4
  Listings <- ZeroItems
INVARIANTS
  ToListLimit
CHECK_DEADLOCK FALSE
