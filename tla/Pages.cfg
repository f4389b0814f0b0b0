\* Both paginators, over collections that others change and that nobody does.
SPECIFICATION Spec
CONSTANTS
  MaxPages = 5
  Listings <- AllListings
INVARIANTS
  TypeOK
  InsertionsHideNothing
  DeletionsRepeatNothing
  ExactlyTheShownRows
  EmptyMeansEmpty
  NoNeedlessRequest
PROPERTIES
  IterationEnds
  ImplementsListing
CHECK_DEADLOCK FALSE
