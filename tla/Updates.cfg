\* Two updates of one object, retried once or not, at any time relative to each other.
SPECIFICATION Spec
CONSTANTS
  Objects = {o1}
  Fields = {name, urls}
  Updates = {u1, u2}
  Attempts = {1, 2}
INVARIANTS
  TypeOK
  SequentialUpdatesCompose
PROPERTIES
  OnlyStaleReadsLoseFields
