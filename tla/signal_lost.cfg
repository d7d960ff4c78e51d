SPECIFICATION Spec
CONSTANTS
  MaxSaves <- MCMaxSaves
  Malformed <- MCWellFormed
PROPERTIES
  SignalEnds
