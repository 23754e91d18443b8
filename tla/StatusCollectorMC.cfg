SPECIFICATION Spec
CONSTANTS
  Powers <- AroundCarry
  Temperatures <- SignedEdges
  Levels = {99, 100}
  OtherBits <- LoadAndFaultBits
  MaxMoments = 2
INVARIANTS TypeOK StatusWasMeasured
