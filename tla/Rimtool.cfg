\* Bundles, images with a descriptor, both and neither; one failing call.
CONSTANTS
  Images <- MCImages
  MaxFailures = 1
  Word = 8192
SPECIFICATION RunSpec
INVARIANTS
  RunTypeOK
  BundleInside
  DigestDecidesVersion
PROPERTIES
  ReportsWhatItIs
  AlwaysReports
CHECK_DEADLOCK FALSE
