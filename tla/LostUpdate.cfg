\* Two updates of one object, without retries.  The property speaks of those that
\* supply different fields and whose GETs found the object.
SPECIFICATION Spec
CONSTANTS
  Objects = {o1}
  Fields = {name, urls}
  Updates = {u1, u2}
  Attempts = {1}
PROPERTIES
  UnspecifiedFieldsPreserved
