\* Every image; a descriptor is hashed without its signature.
CONSTANTS
  Images <- MCImages
  MaxFailures = 0
SPECIFICATION Spec
INVARIANT SignatureRequired
CHECK_DEADLOCK FALSE
