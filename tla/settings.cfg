SPECIFICATION Spec
CONSTANTS
  UINT64_MAX = 31
  Units <- MCUnits
  Texts <- MCTexts
  Default = 5
  PORTS = 8
  EabfFloor = 2
  EXACT = 8
  MaxFlags = 2
  MaxReloads = 2
INVARIANTS
  Precedence
  SizeExact
