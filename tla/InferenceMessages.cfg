SPECIFICATION Spec
CONSTANTS
  Objects = {a, b}
  Numbers <- AllNumbers
  Texts <- AllTexts
  Malformed <- OnlyNotUtf8
  Programs <- AllPrograms
  MaxFaces = 2
  MaxUnknown = 1
SYMMETRY Symmetry
INVARIANTS
  TypeOK
  RequestConsistent
  ResponseConsistent
  RoundTrip
  BufferExact
  MergeIsParse
