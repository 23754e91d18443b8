\* Every register a voltage may be written to.
SPECIFICATION Spec
CONSTANTS
  Lowest = 500
  Highest = 7000
INVARIANTS BoundedDrift ConversionKeepsOrder
