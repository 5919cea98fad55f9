\* Images of two or three boundaries, whole and cut short; two failing calls.
CONSTANTS
  Images <- MCImages
  MaxFailures = 2
SPECIFICATION Spec
INVARIANTS
  TypeOK
  LastDescriptorFound
  FoundIsDescriptor
  FirmwareMeasure
  MeasuredInOrder
  AreaRoom
PROPERTY ScanEnds
CHECK_DEADLOCK FALSE
