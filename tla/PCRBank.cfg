\* Two banks, four extensions and launches between them.
CONSTANTS
  b1 = b1
  b2 = b2
  Bank <- MCBank
  Index <- MCIndex
  Data <- MCData
  MaxMeasurements = 4
SPECIFICATION Spec
INVARIANTS
  TypeOK
  ValueTellsHistory
PROPERTY HistoryKept
