\* Every image; a descriptor without a hash structure ends the program.
CONSTANTS
  Images <- MCImages
  MaxFailures = 0
SPECIFICATION Spec
INVARIANT HashOptional
CHECK_DEADLOCK FALSE
